---- MODULE Spec2Model ----
(***************************************************************************)
(* Training-plan generator of AI-Running-Coach (src/src/models.py,         *)
(* src/src/config.py, src/src/plan_generator.py).                          *)
(*                                                                         *)
(* Numbers.  The program computes with Python floats.  The model computes  *)
(* the same expressions exactly, in fixed point:                           *)
(*   - a weekly mileage is an integer number of "ticks" of 1/40 mile       *)
(*     (every mileage the program produces is a multiple of 0.1 mile, or   *)
(*     0.75 times such a multiple);                                        *)
(*   - inside _calculate_weekly_mileage values are in "fine" units of      *)
(*     1/20000 mile (FinePerTick fine units per tick), in which every      *)
(*     product of that function is an integer;                             *)
(*   - a workout distance is in units of 1/960000 mile (DistPerTick per    *)
(*     tick), in which every quotient of _generate_weekly_plan is an       *)
(*     integer.                                                            *)
(* round(x, 1) acts on the binary float nearest to x: when x lies exactly  *)
(* halfway between two tenths the float is a hair above or below it, so    *)
(* the model lets round() resolve such a tie either way.                   *)
(*                                                                         *)
(* Percentages and rates of the tables are kept as integers: a rate r is   *)
(* stored as 100*r, a multiplier m as 10*m.  Workout descriptions (free    *)
(* text) are not modelled.                                                 *)
(***************************************************************************)
EXTENDS Integers, Sequences, FiniteSets, TLC

VARIABLES
    pc,               \* where the caller is: idle, ready, loop, returned, raised
    profile,          \* the RunnerProfile handed to generate_plan
    total_weeks,      \* generate_plan's local total_weeks
    phase_breakdown,  \* generate_plan's local phase_breakdown (ordered dict)
    week_num,         \* the loop variable of generate_plan
    current_mileage,  \* generate_plan's local current_mileage, in ticks
    weeks,            \* generate_plan's local list of TrainingWeek
    result,           \* what generate_plan gave back: a TrainingPlan or an exception
    call,             \* the last direct call of a helper and what it returned
    timers,           \* MultiTimerApp.timers: the list of Timer objects
    add_button,       \* the state of MultiTimerApp.add_button
    created,          \* how many Timer objects have been constructed
    now,              \* what time.perf_counter() returns, in clock ticks
    observed,         \* per timer: the clock time it has been running since
                      \* its last reset, as an onlooker's stopwatch has it
    video_recorder,   \* the fields of the VideoRecorder
    captures,         \* the cv2.VideoCapture objects made so far, by number
    writers,          \* the cv2.VideoWriter objects made so far, by number
    threads,          \* the recording threads started so far
    ui,               \* where the UI thread is inside a recording handler
    record_button,    \* the symbol MultiTimerApp.record_button shows
    root              \* the application window: "alive" or "destroyed"

\* the variables of the training-plan generator
planVars == <<pc, profile, total_weeks, phase_breakdown, week_num,
              current_mileage, weeks, result, call>>

\* the variables of the multi-timer application
timerVars == <<timers, add_button, created, now, observed>>

\* the variables of the video recording
recorderVars == <<video_recorder, captures, writers, threads, ui,
                  record_button, root>>

uiVars == <<timerVars, recorderVars>>

vars == <<planVars, uiVars>>

(* ------------------------------ bounds -------------------------------- *)

\* weekly_mileage_target ranges over 1..MaxTarget (miles)
MaxTarget == 6

\* an explicit current_weekly_mileage ranges over 0..MaxCurrent (miles)
MaxCurrent == 4

\* the clock advances up to MaxClock ticks
MaxClock == 6

\* a timer records at most MaxSplits splits between resets
MaxSplits == 2

\* at most MaxCreated Timer objects are constructed in a run
MaxCreated == 12

\* the webcam is opened at most MaxRecordings times in a run
MaxRecordings == 2

(* ------------------------- number representation ---------------------- *)

TicksPerMile == 40
FinePerTick == 500
DistPerTick == 24000

(* ------------------------- Python's float ----------------------------- *)
(* Mileages are exact in the units above.  Where the outcome of a          *)
(* comparison hangs on the last bit of a float, the float is computed as   *)
(* Python computes it: an IEEE 754 double, every operation rounded to 53   *)
(* significant bits, ties to even.  A natural number is the sequence of    *)
(* its digits in base 2^15, the least significant first, <<>> for 0; a     *)
(* double is digits * 2^exp, the number odd.                               *)

\* the significant bits of a double
SignificantBits == 53

\* the bits of a digit, and the base
DigitBits == 15
Base == 2^DigitBits

\* the fraction digits a quotient is carried to before it is rounded
QuotientDigits == 5

RECURSIVE NatDigits(_)
NatDigits(n) == IF n = 0 THEN <<>> ELSE <<n % Base>> \o NatDigits(n \div Base)

DigitAt(a, i) == IF i >= 1 /\ i <= Len(a) THEN a[i] ELSE 0

\* a without the zero digits at its high end
RECURSIVE TrimDigits(_)
TrimDigits(a) ==
    IF a = <<>> \/ a[Len(a)] # 0 THEN a
    ELSE TrimDigits(SubSeq(a, 1, Len(a) - 1))

RECURSIVE AddDigitsFrom(_, _, _, _)
AddDigitsFrom(a, b, i, carry) ==
    IF i > Len(a) /\ i > Len(b)
    THEN IF carry = 0 THEN <<>> ELSE <<carry>>
    ELSE <<(DigitAt(a, i) + DigitAt(b, i) + carry) % Base>>
             \o AddDigitsFrom(a, b, i + 1,
                              (DigitAt(a, i) + DigitAt(b, i) + carry) \div Base)

\* a + b
AddDigits(a, b) == AddDigitsFrom(a, b, 1, 0)

RECURSIVE SubDigitsFrom(_, _, _, _)
SubDigitsFrom(a, b, i, borrow) ==
    IF i > Len(a) THEN <<>>
    ELSE <<(a[i] - DigitAt(b, i) - borrow) % Base>>
             \o SubDigitsFrom(a, b, i + 1,
                              IF a[i] - DigitAt(b, i) - borrow < 0 THEN 1 ELSE 0)

\* a - b, for a >= b
SubDigits(a, b) == TrimDigits(SubDigitsFrom(a, b, 1, 0))

RECURSIVE MulDigitFrom(_, _, _, _)
MulDigitFrom(a, d, i, carry) ==
    IF i > Len(a) THEN IF carry = 0 THEN <<>> ELSE <<carry>>
    ELSE <<(a[i] * d + carry) % Base>>
             \o MulDigitFrom(a, d, i + 1, (a[i] * d + carry) \div Base)

\* a * d for one digit d
MulDigit(a, d) == TrimDigits(MulDigitFrom(a, d, 1, 0))

\* a * Base^k
ShiftDigits(a, k) == IF a = <<>> THEN <<>> ELSE [i \in 1..k |-> 0] \o a

RECURSIVE MulDigitsFrom(_, _, _)
MulDigitsFrom(a, b, i) ==
    IF i > Len(b) THEN <<>>
    ELSE AddDigits(MulDigit(a, b[i]),
                   ShiftDigits(MulDigitsFrom(a, b, i + 1), 1))

\* a * b
MulDigits(a, b) == MulDigitsFrom(a, b, 1)

\* a * 2^k
ShiftLeft(a, k) ==
    ShiftDigits(MulDigit(a, 2^(k % DigitBits)), k \div DigitBits)

\* a \div 2^k
ShiftRight(a, k) ==
    LET whole == k \div DigitBits
        part == k % DigitBits
    IN  TrimDigits([i \in 1..(Len(a) - whole) |->
            a[i + whole] \div 2^part
                + (DigitAt(a, i + whole + 1) % 2^part) * 2^(DigitBits - part)])

\* bit k of a, bit 0 the least significant
BitOf(a, k) == (DigitAt(a, k \div DigitBits + 1) \div 2^(k % DigitBits)) % 2

\* the number of bits of a, for a > 0
BitLength(a) ==
    DigitBits * (Len(a) - 1)
        + (CHOOSE k \in 1..DigitBits : 2^(k - 1) <= a[Len(a)] /\ a[Len(a)] < 2^k)

\* a <= b, decided from digit i down, the higher digits being equal
RECURSIVE LeqDigitsFrom(_, _, _)
LeqDigitsFrom(a, b, i) ==
    IF i = 0 THEN TRUE
    ELSE IF a[i] # b[i] THEN a[i] < b[i]
    ELSE LeqDigitsFrom(a, b, i - 1)

\* a <= b
LeqDigits(a, b) ==
    IF Len(a) # Len(b) THEN Len(a) < Len(b) ELSE LeqDigitsFrom(a, b, Len(a))

\* n * 2^exp with the zero bits at the low end of n moved into exp
Double(n, exp) ==
    IF n = <<>> THEN [digits |-> <<>>, exp |-> 0]
    ELSE LET zeros == CHOOSE k \in 0..(BitLength(n) - 1) :
                          /\ BitOf(n, k) = 1
                          /\ \A j \in 0..(k - 1) : BitOf(n, j) = 0
         IN  [digits |-> ShiftRight(n, zeros), exp |-> exp + zeros]

\* the double nearest to n * 2^exp: n rounded to 53 significant bits, a tie
\* going to the even neighbour
RoundDouble(n, exp) ==
    IF n = <<>> \/ BitLength(n) <= SignificantBits THEN Double(n, exp)
    ELSE LET dropped == BitLength(n) - SignificantBits
             kept == ShiftRight(n, dropped)
             above_half == \E j \in 0..(dropped - 2) : BitOf(n, j) = 1
             up == BitOf(n, dropped - 1) = 1 /\ (above_half \/ BitOf(kept, 0) = 1)
         IN  Double(IF up THEN AddDigits(kept, <<1>>) ELSE kept, exp + dropped)

\* float(n) of an int
DoubleOfInt(n) == RoundDouble(NatDigits(n), 0)

\* the long division of n by the digit d from digit i down, rem being what
\* the higher digits left: the digits of the quotient, and below them one
\* more digit that tells whether a remainder is left
RECURSIVE DivDigitFrom(_, _, _, _)
DivDigitFrom(n, d, i, rem) ==
    IF i = 0 THEN <<IF rem # 0 THEN 1 ELSE 0>>
    ELSE Append(DivDigitFrom(n, d, i - 1, (rem * Base + n[i]) % d),
                (rem * Base + n[i]) \div d)

\* the double nearest to p / d: what a decimal literal such as 0.8 (8 / 10)
\* denotes, and what round(x, 1) returns for the tenth it rounds to
DoubleOfRatio(p, d) ==
    IF p = 0 THEN Double(<<>>, 0)
    ELSE RoundDouble(
             TrimDigits(DivDigitFrom(ShiftDigits(NatDigits(p), QuotientDigits),
                                     d, Len(NatDigits(p)) + QuotientDigits, 0)),
             0 - DigitBits * (QuotientDigits + 1))

\* x * y of two floats
DoubleMul(x, y) == RoundDouble(MulDigits(x.digits, y.digits), x.exp + y.exp)

\* x - y of two floats, for x >= y
DoubleSub(x, y) ==
    LET exp == IF x.exp < y.exp THEN x.exp ELSE y.exp
    IN  RoundDouble(SubDigits(ShiftLeft(x.digits, x.exp - exp),
                              ShiftLeft(y.digits, y.exp - exp)), exp)

\* x <= y of two floats
DoubleLeq(x, y) ==
    LET exp == IF x.exp < y.exp THEN x.exp ELSE y.exp
    IN  LeqDigits(ShiftLeft(x.digits, x.exp - exp),
                  ShiftLeft(y.digits, y.exp - exp))

(* ------------------------------ models.py ----------------------------- *)

\* current_weekly_mileage = None (no mileage is negative)
None == -1
NoValue == [kind |-> "none"]

\* enum members: name and value, as Python's Enum keeps them
RaceDistance ==
    { [name |-> "MILE", value |-> "1 Mile"],
      [name |-> "FIVE_K", value |-> "5K"],
      [name |-> "TEN_K", value |-> "10K"],
      [name |-> "HALF_MARATHON", value |-> "Half Marathon"],
      [name |-> "MARATHON", value |-> "Marathon"] }

ExperienceLevel ==
    { [name |-> "BEGINNER", value |-> "Beginner"],
      [name |-> "INTERMEDIATE", value |-> "Intermediate"],
      [name |-> "ADVANCED", value |-> "Advanced"] }

TrainingPhase ==
    { [name |-> "BASE", value |-> "Base"],
      [name |-> "BUILD", value |-> "Build"],
      [name |-> "PEAK", value |-> "Peak"],
      [name |-> "TAPER", value |-> "Taper"] }

WorkoutType ==
    { "EASY_RUN", "LONG_RUN", "TEMPO_RUN", "INTERVALS", "STRIDES",
      "HILLS", "RACE_PACE", "RECOVERY", "REST" }

TrainingZone == { "ZONE_1", "ZONE_2", "ZONE_3", "ZONE_4", "ZONE_5" }

\* an exception leaving a function, in the shape of an enum member so that
\* it can stand where a member is expected
Raised(exc) == [name |-> "<raised>", value |-> exc]

IsRaised(x) == x.name = "<raised>"

\* TrainingPhase.TAPER, TrainingPhase.BASE, ...: member access by name
PhaseMember(n) == CHOOSE m \in TrainingPhase : m.name = n

\* TrainingPhase(x): Enum's call looks a member up by VALUE and raises
\* ValueError when no member has that value
TrainingPhaseCall(x) ==
    IF \E m \in TrainingPhase : m.value = x
    THEN CHOOSE m \in TrainingPhase : m.value = x
    ELSE Raised("ValueError")

\* RunnerProfile with __post_init__ applied: an unset current mileage
\* becomes weekly_mileage_target * 0.7.  Mileages in ticks.
RunnerProfile(level, distance, target, days, current) ==
    [ experience_level |-> level,
      target_distance |-> distance,
      weekly_mileage_target |-> target,
      days_per_week |-> days,
      current_weekly_mileage |->
          IF current = None
          THEN (target * TicksPerMile * 7) \div 10
          ELSE current * TicksPerMile ]

\* Workout._estimate_pace: minutes per mile of a zone
EstimatePace(zone) ==
    CASE zone = "ZONE_1" -> 10
      [] zone = "ZONE_2" -> 9
      [] zone = "ZONE_3" -> 8
      [] zone = "ZONE_4" -> 7
      [] zone = "ZONE_5" -> 6
      [] OTHER -> 9

\* Workout with __post_init__ applied: duration_minutes is
\* int(distance_miles * pace).  The distance is in 1/960000 mile.
Workout(day, type, distance, zone) ==
    [ day |-> day,
      workout_type |-> type,
      distance_miles |-> distance,
      intensity_zone |-> zone,
      duration_minutes |->
          (distance * EstimatePace(zone)) \div (DistPerTick * TicksPerMile) ]

RECURSIVE SumDistance(_)
SumDistance(ws) ==
    IF ws = <<>> THEN 0
    ELSE Head(ws).distance_miles + SumDistance(Tail(ws))

\* TrainingWeek with __post_init__ applied: a falsy (zero) total_mileage is
\* replaced by the sum of the workouts' distances.  total_mileage in ticks.
TrainingWeek(number, phase, workouts, mileage) ==
    [ week_number |-> number,
      phase |-> phase,
      workouts |-> workouts,
      total_mileage |->
          IF mileage = 0 THEN SumDistance(workouts) \div DistPerTick
          ELSE mileage ]

RECURSIVE MaxMileage(_)
MaxMileage(wks) ==
    IF Len(wks) = 1 THEN wks[1].total_mileage
    ELSE LET m == MaxMileage(Tail(wks))
         IN  IF wks[1].total_mileage > m THEN wks[1].total_mileage ELSE m

\* TrainingPlan with __post_init__ applied: falsy total_weeks and
\* peak_mileage are recomputed from the weeks
TrainingPlan(prof, wks, total, peak) ==
    [ kind |-> "TrainingPlan",
      runner_profile |-> prof,
      weeks |-> wks,
      total_weeks |-> IF total = 0 THEN Len(wks) ELSE total,
      peak_mileage |-> IF peak = 0 THEN MaxMileage(wks) ELSE peak ]

(* ------------------------------ config.py ----------------------------- *)

DistanceConfig(mn, mx, base, build, peak, taper, long_run) ==
    [ min_training_weeks |-> mn,
      max_training_weeks |-> mx,
      base_phase_weeks |-> base,
      build_phase_weeks |-> build,
      peak_phase_weeks |-> peak,
      taper_weeks |-> taper,
      long_run_percentage |-> long_run ]   \* in percent

\* DISTANCE_CONFIGS[distance]
DISTANCE_CONFIGS(distance) ==
    CASE distance.name = "MILE" -> DistanceConfig(8, 12, 4, 4, 2, 2, 15)
      [] distance.name = "FIVE_K" -> DistanceConfig(10, 16, 6, 6, 2, 2, 20)
      [] distance.name = "TEN_K" -> DistanceConfig(12, 18, 6, 8, 2, 2, 25)
      [] distance.name = "HALF_MARATHON" -> DistanceConfig(14, 20, 8, 8, 2, 2, 30)
      [] distance.name = "MARATHON" -> DistanceConfig(16, 24, 8, 10, 2, 4, 35)

\* EXPERIENCE_ADJUSTMENTS[level]: the rate in percent, the multiplier in tenths
EXPERIENCE_ADJUSTMENTS(level) ==
    CASE level.name = "BEGINNER" ->
             [ mileage_increase_rate |-> 5,
               max_weekly_mileage_multiplier |-> 8,
               recovery_weeks_frequency |-> 3,
               base_phase_extension |-> 2 ]
      [] level.name = "INTERMEDIATE" ->
             [ mileage_increase_rate |-> 8,
               max_weekly_mileage_multiplier |-> 9,
               recovery_weeks_frequency |-> 4,
               base_phase_extension |-> 1 ]
      [] level.name = "ADVANCED" ->
             [ mileage_increase_rate |-> 10,
               max_weekly_mileage_multiplier |-> 10,
               recovery_weeks_frequency |-> 5,
               base_phase_extension |-> 0 ]

\* PHASE_WORKOUT_DISTRIBUTION[phase name]: the dict's items in their declared
\* order, the shares in percent
PHASE_WORKOUT_DISTRIBUTION(phase_name) ==
    CASE phase_name = "BASE" ->
             << <<"easy_runs", 70>>, <<"long_runs", 20>>, <<"tempo_runs", 5>>,
                <<"strides", 5>>, <<"intervals", 0>>, <<"hills", 0>> >>
      [] phase_name = "BUILD" ->
             << <<"easy_runs", 60>>, <<"long_runs", 20>>, <<"tempo_runs", 10>>,
                <<"strides", 5>>, <<"intervals", 5>>, <<"hills", 0>> >>
      [] phase_name = "PEAK" ->
             << <<"easy_runs", 50>>, <<"long_runs", 15>>, <<"tempo_runs", 15>>,
                <<"strides", 5>>, <<"intervals", 10>>, <<"hills", 5>> >>
      [] phase_name = "TAPER" ->
             << <<"easy_runs", 70>>, <<"long_runs", 10>>, <<"tempo_runs", 10>>,
                <<"strides", 5>>, <<"intervals", 5>>, <<"hills", 0>> >>

\* INJURY_PREVENTION, in percent
INJURY_PREVENTION ==
    [ max_mileage_increase |-> 10,
      down_week_reduction |-> 25 ]

(* -------------------------- plan_generator.py ------------------------- *)

\* _calculate_training_weeks as it would be with the timeline taken from the
\* sum of the distance's phase weeks and the cap at max_training_weeks left out
CalculateTrainingWeeks_Uncapped(prof) ==
    LET distance_config == DISTANCE_CONFIGS(prof.target_distance)
        experience_adjustment == EXPERIENCE_ADJUSTMENTS(prof.experience_level)
        base_weeks == distance_config.base_phase_weeks
                          + distance_config.build_phase_weeks
                          + distance_config.peak_phase_weeks
                          + distance_config.taper_weeks
        total0 == base_weeks + experience_adjustment.base_phase_extension
    IN  IF total0 < distance_config.min_training_weeks
        THEN distance_config.min_training_weeks ELSE total0

\* _calculate_training_weeks
CalculateTrainingWeeks(prof) ==
    LET distance_config == DISTANCE_CONFIGS(prof.target_distance)
        experience_adjustment == EXPERIENCE_ADJUSTMENTS(prof.experience_level)
        base_weeks == distance_config.min_training_weeks
        base_extension == experience_adjustment.base_phase_extension
        total0 == base_weeks + base_extension
        total1 == IF total0 < distance_config.min_training_weeks
                  THEN distance_config.min_training_weeks ELSE total0
    IN  IF total1 > distance_config.max_training_weeks
        THEN distance_config.max_training_weeks ELSE total1

\* _calculate_phase_breakdown as it would be without the re-computation of
\* base_weeks after build_weeks is raised to its minimum of 2
CalculatePhaseBreakdown_BaseKept(prof, total) ==
    LET distance_config == DISTANCE_CONFIGS(prof.target_distance)
        experience_adjustment == EXPERIENCE_ADJUSTMENTS(prof.experience_level)
        base_weeks == distance_config.base_phase_weeks
                          + experience_adjustment.base_phase_extension
        build0 == distance_config.build_phase_weeks
        peak_weeks == distance_config.peak_phase_weeks
        taper_weeks == distance_config.taper_weeks
        allocated_weeks == base_weeks + build0 + peak_weeks + taper_weeks
        build1 == total - base_weeks - peak_weeks - taper_weeks
        build_weeks == IF allocated_weeks # total
                       THEN (IF build1 < 2 THEN 2 ELSE build1)
                       ELSE build0
    IN  << <<"BASE", base_weeks>>, <<"BUILD", build_weeks>>,
           <<"PEAK", peak_weeks>>, <<"TAPER", taper_weeks>> >>

\* _calculate_phase_breakdown as it would be without the minimum of 2 on the
\* recomputed build_weeks
CalculatePhaseBreakdown_NoMinimum(prof, total) ==
    LET distance_config == DISTANCE_CONFIGS(prof.target_distance)
        experience_adjustment == EXPERIENCE_ADJUSTMENTS(prof.experience_level)
        base0 == distance_config.base_phase_weeks
                     + experience_adjustment.base_phase_extension
        build0 == distance_config.build_phase_weeks
        peak_weeks == distance_config.peak_phase_weeks
        taper_weeks == distance_config.taper_weeks
        allocated_weeks == base0 + build0 + peak_weeks + taper_weeks
        build_weeks == IF allocated_weeks # total
                       THEN total - base0 - peak_weeks - taper_weeks
                       ELSE build0
    IN  << <<"BASE", base0>>, <<"BUILD", build_weeks>>,
           <<"PEAK", peak_weeks>>, <<"TAPER", taper_weeks>> >>

\* _calculate_phase_breakdown: the returned dict as its items in order
CalculatePhaseBreakdown(prof, total) ==
    LET distance_config == DISTANCE_CONFIGS(prof.target_distance)
        experience_adjustment == EXPERIENCE_ADJUSTMENTS(prof.experience_level)
        base0 == distance_config.base_phase_weeks
                     + experience_adjustment.base_phase_extension
        build0 == distance_config.build_phase_weeks
        peak_weeks == distance_config.peak_phase_weeks
        taper_weeks == distance_config.taper_weeks
        allocated_weeks == base0 + build0 + peak_weeks + taper_weeks
        build1 == total - base0 - peak_weeks - taper_weeks
        build_weeks == IF allocated_weeks # total
                       THEN (IF build1 < 2 THEN 2 ELSE build1)
                       ELSE build0
        base_weeks == IF allocated_weeks # total /\ build1 < 2
                      THEN total - build_weeks - peak_weeks - taper_weeks
                      ELSE base0
    IN  << <<"BASE", base_weeks>>, <<"BUILD", build_weeks>>,
           <<"PEAK", peak_weeks>>, <<"TAPER", taper_weeks>> >>

\* the loop of _determine_phase from item i on, cumulative_weeks so far: the
\* index of the item at which control leaves the function from inside the
\* loop, 0 when the loop runs out and control reaches the trailing fallback
RECURSIVE DeterminePhaseExit(_, _, _, _)
DeterminePhaseExit(week, breakdown, i, cumulative_weeks) ==
    IF i > Len(breakdown) THEN 0
    ELSE LET cumulative == cumulative_weeks + breakdown[i][2]
         IN  IF week <= cumulative
             THEN i
             ELSE DeterminePhaseExit(week, breakdown, i + 1, cumulative)

\* what _determine_phase evaluates where control leaves it: the Enum call
\* inside the loop, or the member TAPER of the fallback
DeterminePhaseFrom(week, breakdown, i, cumulative_weeks) ==
    LET at == DeterminePhaseExit(week, breakdown, i, cumulative_weeks)
    IN  IF at = 0 THEN PhaseMember("TAPER")   \* the fallback
        ELSE TrainingPhaseCall(breakdown[at][1])

\* _determine_phase: a TrainingPhase member, or the exception it raises
DeterminePhase(week, breakdown) == DeterminePhaseFrom(week, breakdown, 1, 0)

\* round(x, 1) of a value in fine units, in ticks: the nearest tenth of a
\* mile, either neighbour at an exact half
Round1(fine) ==
    LET tenth == (TicksPerMile * FinePerTick) \div 10
        q == fine \div tenth
        r == fine % tenth
        ticks == TicksPerMile \div 10
    IN  IF 2 * r < tenth THEN {q * ticks}
        ELSE IF 2 * r > tenth THEN {(q + 1) * ticks}
        ELSE {q * ticks, (q + 1) * ticks}

\* _calculate_weekly_mileage as it would be if the recovery week's value
\* were rounded to one decimal like the other weeks'
CalculateWeeklyMileage_RecoveryRounded(week, current, prof, phase) ==
    LET experience_adjustment == EXPERIENCE_ADJUSTMENTS(prof.experience_level)
        increase_rate == experience_adjustment.mileage_increase_rate
        recovery_frequency == experience_adjustment.recovery_weeks_frequency
        cur == current * FinePerTick
        target0 == prof.weekly_mileage_target
                       * experience_adjustment.max_weekly_mileage_multiplier
                       * ((TicksPerMile * FinePerTick) \div 10)
        target_mileage == IF phase = PhaseMember("TAPER")
                          THEN (target0 * (10 - (week % 4))) \div 10
                          ELSE target0
        max_increase == (cur * INJURY_PREVENTION.max_mileage_increase) \div 100
        new0 == cur + ((target_mileage - cur) * increase_rate) \div 100
        new1 == IF new0 > cur + max_increase THEN cur + max_increase ELSE new0
        new2 == IF new1 > target_mileage THEN target_mileage ELSE new1
    IN  IF week % recovery_frequency = 0
        THEN Round1((cur * (100 - INJURY_PREVENTION.down_week_reduction)) \div 100)
        ELSE Round1(new2)

\* _calculate_weekly_mileage as it would be without the clamp of the new
\* mileage to target_mileage
CalculateWeeklyMileage_NoClamp(week, current, prof, phase) ==
    LET experience_adjustment == EXPERIENCE_ADJUSTMENTS(prof.experience_level)
        increase_rate == experience_adjustment.mileage_increase_rate
        recovery_frequency == experience_adjustment.recovery_weeks_frequency
        cur == current * FinePerTick
        target0 == prof.weekly_mileage_target
                       * experience_adjustment.max_weekly_mileage_multiplier
                       * ((TicksPerMile * FinePerTick) \div 10)
        target_mileage == IF phase = PhaseMember("TAPER")
                          THEN (target0 * (10 - (week % 4))) \div 10
                          ELSE target0
        max_increase == (cur * INJURY_PREVENTION.max_mileage_increase) \div 100
        new0 == cur + ((target_mileage - cur) * increase_rate) \div 100
        new1 == IF new0 > cur + max_increase THEN cur + max_increase ELSE new0
        new2 == new1
    IN  IF week % recovery_frequency = 0
        THEN {(current * (100 - INJURY_PREVENTION.down_week_reduction)) \div 100}
        ELSE Round1(new2)

\* _calculate_weekly_mileage: the set of values the call can return (one
\* value, two at a rounding tie), in ticks
CalculateWeeklyMileage(week, current, prof, phase) ==
    LET experience_adjustment == EXPERIENCE_ADJUSTMENTS(prof.experience_level)
        increase_rate == experience_adjustment.mileage_increase_rate
        recovery_frequency == experience_adjustment.recovery_weeks_frequency
        cur == current * FinePerTick
        target0 == prof.weekly_mileage_target
                       * experience_adjustment.max_weekly_mileage_multiplier
                       * ((TicksPerMile * FinePerTick) \div 10)
        target_mileage == IF phase = PhaseMember("TAPER")
                          THEN (target0 * (10 - (week % 4))) \div 10
                          ELSE target0
        max_increase == (cur * INJURY_PREVENTION.max_mileage_increase) \div 100
        new0 == cur + ((target_mileage - cur) * increase_rate) \div 100
        new1 == IF new0 > cur + max_increase THEN cur + max_increase ELSE new0
        new2 == IF new1 > target_mileage THEN target_mileage ELSE new1
    IN  IF week % recovery_frequency = 0
        THEN {(current * (100 - INJURY_PREVENTION.down_week_reduction)) \div 100}
        ELSE Round1(new2)

\* _determine_workout_intensity: zone_mapping.get(type, ZONE_2)
DetermineWorkoutIntensity(type) ==
    CASE type \in {"EASY_RUN", "LONG_RUN"} -> "ZONE_2"
      [] type \in {"TEMPO_RUN", "STRIDES", "HILLS", "RACE_PACE"} -> "ZONE_4"
      [] type = "INTERVALS" -> "ZONE_5"
      [] type \in {"RECOVERY", "REST"} -> "ZONE_1"
      [] OTHER -> "ZONE_2"

\* _get_workout_type: mapping.get(key, EASY_RUN)
GetWorkoutType(key) ==
    CASE key = "easy_runs" -> "EASY_RUN"
      [] key = "long_runs" -> "LONG_RUN"
      [] key = "tempo_runs" -> "TEMPO_RUN"
      [] key = "intervals" -> "INTERVALS"
      [] key = "strides" -> "STRIDES"
      [] key = "hills" -> "HILLS"
      [] OTHER -> "EASY_RUN"

\* _create_workout: a Rest workout has distance 0 and Zone 1 whatever the
\* distance passed in
CreateWorkout(day, type, distance) ==
    IF type = "REST"
    THEN Workout(day, "REST", 0, "ZONE_1")
    ELSE Workout(day, type, distance, DetermineWorkoutIntensity(type))

\* remaining_workouts of _generate_weekly_plan before its loop
InitialRemainingWorkouts(prof) == prof.days_per_week - 1

\* the for loop of _generate_weekly_plan from item i of the distribution on;
\* st holds the loop's variables workouts, day and remaining_workouts
RECURSIVE DistributeFrom(_, _, _, _, _)
DistributeFrom(distribution, i, long_run_distance, remaining_mileage, st) ==
    IF i > Len(distribution) THEN st
    ELSE
      LET workout_type == distribution[i][1]
          percentage == distribution[i][2]
          workout_distance ==
              (remaining_mileage * percentage) \div (100 * st.remaining_workouts)
          next ==
              IF percentage > 0 /\ st.remaining_workouts > 0
              THEN IF workout_type = "long_runs"
                   THEN [ workouts |-> Append(st.workouts,
                              CreateWorkout(st.day, "LONG_RUN", long_run_distance)),
                          day |-> st.day + 1,
                          remaining_workouts |-> st.remaining_workouts ]
                   ELSE IF workout_distance > 0
                   THEN [ workouts |-> Append(st.workouts,
                              CreateWorkout(st.day, GetWorkoutType(workout_type),
                                            workout_distance)),
                          day |-> st.day + 1,
                          remaining_workouts |-> st.remaining_workouts - 1 ]
                   ELSE st
              ELSE st
      IN  DistributeFrom(distribution, i + 1, long_run_distance,
                         remaining_mileage, next)

\* the while loop of _generate_weekly_plan: Rest days up to days_per_week
RECURSIVE AddRestDays(_, _, _)
AddRestDays(workouts, day, days_per_week) ==
    IF day <= days_per_week
    THEN AddRestDays(Append(workouts, CreateWorkout(day, "REST", 0)),
                     day + 1, days_per_week)
    ELSE workouts

\* insertion of w into a list sorted by day, after the entries of equal day
RECURSIVE InsertByDay(_, _)
InsertByDay(sorted, w) ==
    IF sorted = <<>> THEN <<w>>
    ELSE IF w.day < Head(sorted).day THEN <<w>> \o sorted
    ELSE <<Head(sorted)>> \o InsertByDay(Tail(sorted), w)

\* workouts.sort(key=lambda w: w.day): a stable sort
RECURSIVE SortByDay(_)
SortByDay(workouts) ==
    IF workouts = <<>> THEN <<>>
    ELSE InsertByDay(SortByDay(SubSeq(workouts, 1, Len(workouts) - 1)),
                     workouts[Len(workouts)])

\* _generate_weekly_plan; weekly_mileage in ticks
GenerateWeeklyPlan(week, phase, weekly_mileage, prof) ==
    LET distance_config == DISTANCE_CONFIGS(prof.target_distance)
        workout_distribution == PHASE_WORKOUT_DISTRIBUTION(phase.name)
        long_run_distance ==
            (weekly_mileage * DistPerTick * distance_config.long_run_percentage)
                \div 100
        remaining_mileage == weekly_mileage * DistPerTick - long_run_distance
        st == DistributeFrom(workout_distribution, 1, long_run_distance,
                             remaining_mileage,
                             [ workouts |-> <<>>, day |-> 1,
                               remaining_workouts |-> InitialRemainingWorkouts(prof) ])
        workouts == AddRestDays(st.workouts, st.day, prof.days_per_week)
    IN  TrainingWeek(week, phase, SortByDay(workouts), weekly_mileage)

(* ------------------------ the multi-timer application ----------------- *)
(* src/main.py.  Tk runs every handler to its end on the one UI thread, so *)
(* a handler is one step.  The texts of the time labels, the grid layout   *)
(* and the split history widget are display only and are not modelled.     *)
(* time.perf_counter() is monotonic: every read returns a value at or      *)
(* after the one before, and an operator takes the value of each read it   *)
(* makes.  The reads of update_timer and update_split_timer only draw.     *)

\* MultiTimerApp.max_timers
max_timers == 10

\* Timer.__init__ and setup_ui: a new Timer with the given timer_id; obj
\* tells the Timer objects apart, name_var n stands for the text "Timer n"
Timer(timer_id, obj) ==
    [ obj |-> obj,
      timer_id |-> timer_id,
      name_var |-> timer_id,
      is_running |-> FALSE,
      start_time |-> 0,
      elapsed_time |-> 0,
      split_start_time |-> 0,
      split_elapsed_time |-> 0,
      is_split_running |-> FALSE,
      splits |-> <<>>,
      start_button |-> "play",
      split_button |-> "disabled" ]

\* Timer.start_timer as it would be if it restarted from the clock alone
start_timer_FromNow(t, clock) ==
    [t EXCEPT !.is_running = TRUE,
              !.start_time = clock,
              !.start_button = "pause",
              !.split_button = "normal"]

\* Timer.start_timer
start_timer(t, clock) ==
    [t EXCEPT !.is_running = TRUE,
              !.start_time = clock - t.elapsed_time,
              !.start_button = "pause",
              !.split_button = "normal"]

\* Timer.stop_split
stop_split(t, clock) ==
    IF t.is_split_running
    THEN [t EXCEPT !.is_split_running = FALSE,
                   !.splits = Append(t.splits, clock - t.split_start_time),
                   !.split_elapsed_time = 0]
    ELSE t

\* Timer.stop_timer as it would be without stopping a running split
stop_timer_SplitKept(t, clock, split_clock) ==
    [t EXCEPT !.is_running = FALSE,
              !.elapsed_time = clock - t.start_time,
              !.start_button = "play",
              !.split_button = "disabled"]

\* Timer.stop_timer: the clock is read at line 116 and, when a split runs,
\* again in stop_split
stop_timer(t, clock, split_clock) ==
    LET stopped == [t EXCEPT !.is_running = FALSE,
                             !.elapsed_time = clock - t.start_time,
                             !.start_button = "play",
                             !.split_button = "disabled"]
    IN  IF stopped.is_split_running
        THEN stop_split(stopped, split_clock) ELSE stopped

\* Timer.toggle_timer
toggle_timer(t, clock, split_clock) ==
    IF ~t.is_running
    THEN start_timer(t, clock) ELSE stop_timer(t, clock, split_clock)

\* Timer.start_split
start_split(t, clock) ==
    [t EXCEPT !.is_split_running = TRUE,
              !.split_start_time = clock - t.split_elapsed_time]

\* Timer.toggle_split: with a split running the clock is read in stop_split
\* and again in start_split
toggle_split(t, clock, next_clock) ==
    IF ~t.is_split_running
    THEN start_split(t, clock)
    ELSE start_split(stop_split(t, clock), next_clock)

\* Timer.reset_timer
reset_timer(t) ==
    [t EXCEPT !.is_running = FALSE,
              !.elapsed_time = 0,
              !.start_button = "play",
              !.is_split_running = FALSE,
              !.split_elapsed_time = 0,
              !.split_button = "disabled",
              !.splits = <<>>]

\* the part of MultiTimerApp that add_timer and remove_timer work on
AppState(ts, button, n) == [timers |-> ts, add_button |-> button, created |-> n]

\* MultiTimerApp.add_timer as it would be with ">" for ">=" in its first test
add_timer_OneMore(app) ==
    IF Len(app.timers) > max_timers THEN app
    ELSE LET timer_id == Len(app.timers) + 1
             ts == Append(app.timers, Timer(timer_id, app.created + 1))
         IN  AppState(ts,
                      IF Len(ts) >= max_timers THEN "disabled" ELSE app.add_button,
                      app.created + 1)

\* MultiTimerApp.add_timer
add_timer(app) ==
    IF Len(app.timers) >= max_timers THEN app
    ELSE LET timer_id == Len(app.timers) + 1
             ts == Append(app.timers, Timer(timer_id, app.created + 1))
         IN  AppState(ts,
                      IF Len(ts) >= max_timers THEN "disabled" ELSE app.add_button,
                      app.created + 1)

\* list.remove of the element at position i
RemoveAt(seq, i) == SubSeq(seq, 1, i - 1) \o SubSeq(seq, i + 1, Len(seq))

\* MultiTimerApp.renumber_timers as it would be if it left the ids alone
renumber_timers_Kept(ts) == ts

\* MultiTimerApp.renumber_timers: ids, and the default names, by position
renumber_timers(ts) ==
    [i \in 1..Len(ts) |-> [ts[i] EXCEPT !.timer_id = i, !.name_var = i]]

\* MultiTimerApp.remove_timer of the timer at position i
remove_timer(app, i) ==
    LET ts == renumber_timers(RemoveAt(app.timers, i))
    IN  AppState(ts,
                 IF Len(ts) < max_timers THEN "normal" ELSE app.add_button,
                 app.created)

\* MultiTimerApp.__init__: an empty list, then the first timer
MultiTimerApp == add_timer(AppState(<<>>, "normal", 0))

\* the onlooker's stopwatch of a timer that has not run since its reset
Unstarted == [ran |-> 0, resumed |-> FALSE]

\* the stopwatches when the clock has advanced by d: those of the running
\* timers advance with it
Ran(obs, ts, d) ==
    [i \in 1..Len(ts) |->
        IF ts[i].is_running THEN [obs[i] EXCEPT !.ran = @ + d] ELSE obs[i]]

\* MultiTimerApp.start_all_timers from the timer at position i on, the last
\* read of the clock having returned clock: the outcomes, one for every way
\* the reads of the start_timer calls can fall, up to the clock value last
\* allowed
RECURSIVE start_all_timers(_, _, _, _, _)
start_all_timers(ts, obs, i, clock, last) ==
    IF i > Len(ts) THEN {[timers |-> ts, observed |-> obs, now |-> clock]}
    ELSE IF ts[i].is_running THEN start_all_timers(ts, obs, i + 1, clock, last)
    ELSE UNION { LET started == [ts EXCEPT ![i] = start_timer(ts[i], c)]
                     seen == [Ran(obs, ts, c - clock) EXCEPT
                                 ![i].resumed = @ \/ obs[i].ran > 0]
                 IN  start_all_timers(started, seen, i + 1, c, last)
                 : c \in clock..last }

(* --------------------------- the video recorder ------------------------ *)
(* A VideoCapture or VideoWriter object is known by its number, 0 standing *)
(* for None.  The preview thread only reads the camera and draws; of it    *)
(* only the stop_preview flag is kept.                                     *)

\* VideoRecorder.__init__
VideoRecorder ==
    [ is_recording |-> FALSE, cap |-> 0, video_writer |-> 0,
      stop_preview |-> FALSE ]

\* the UI thread is in no recording handler
UiIdle == [handler |-> "none", at |-> "idle"]

\* a recording thread about to run _record_video
RecordingThread == [at |-> "672", ret |-> FALSE, last_write |-> "none"]

\* the line at which a handler goes on when stop_recording has returned
AfterStopRecording(handler) ==
    CASE handler = "toggle_recording" -> "338"
      [] handler = "save_session"     -> "369"
      [] handler = "on_closing"       -> "582"

(* ----------------------------- the program ----------------------------- *)

Init ==
    /\ pc = "idle"
    /\ profile = NoValue
    /\ total_weeks = 0
    /\ phase_breakdown = <<>>
    /\ week_num = 0
    /\ current_mileage = 0
    /\ weeks = <<>>
    /\ result = NoValue
    /\ call = NoValue
    /\ timers = MultiTimerApp.timers
    /\ add_button = MultiTimerApp.add_button
    /\ created = MultiTimerApp.created
    /\ now = 0
    /\ observed = [i \in 1..Len(MultiTimerApp.timers) |-> Unstarted]
    /\ video_recorder = VideoRecorder
    /\ captures = <<>>
    /\ writers = <<>>
    /\ threads = <<>>
    /\ ui = UiIdle
    /\ record_button = "record"
    /\ root = "alive"

\* a profile outside the enumerated ranges: Beginner, 5K, target 20 miles,
\* 4 days a week, current mileage unset
ScenarioProfile ==
    RunnerProfile(CHOOSE l \in ExperienceLevel : l.name = "BEGINNER",
                  CHOOSE d \in RaceDistance : d.name = "FIVE_K",
                  20, 4, None)

\* the caller builds a RunnerProfile (RunnerProfile.__post_init__ runs)
CreateProfile ==
    /\ pc = "idle"
    /\ \E level \in ExperienceLevel, distance \in RaceDistance,
          target \in 1..MaxTarget, days \in 3..7,
          current \in {None} \cup (0..MaxCurrent) :
           profile' \in {RunnerProfile(level, distance, target, days, current),
                         ScenarioProfile}
    /\ pc' = "ready"
    /\ UNCHANGED <<total_weeks, phase_breakdown, week_num, current_mileage,
                   weeks, result, call>>
    /\ UNCHANGED uiVars

\* generate_plan up to its loop
GeneratePlanBegin ==
    /\ pc = "ready"
    /\ total_weeks' = CalculateTrainingWeeks(profile)
    /\ phase_breakdown' = CalculatePhaseBreakdown(profile, total_weeks')
    /\ weeks' = <<>>
    /\ current_mileage' = profile.current_weekly_mileage
    /\ week_num' = 1
    /\ pc' = "loop"
    /\ UNCHANGED <<profile, result, call>>
    /\ UNCHANGED uiVars

\* the last week number of range(1, total_weeks + 1)
LastWeek(total) == total

\* peak_mileage=max(w.total_mileage for w in weeks)
PeakOf(wks) == MaxMileage(wks)

\* generate_plan's loop: one iteration, or the return once the range is
\* exhausted; an exception raised inside ends the call
GeneratePlanLoop ==
    /\ pc = "loop"
    /\ IF week_num <= LastWeek(total_weeks)
       THEN LET phase == DeterminePhase(week_num, phase_breakdown)
            IN  IF IsRaised(phase)
                THEN /\ pc' = "raised"
                     /\ result' = [kind |-> phase.value]
                     /\ UNCHANGED <<week_num, current_mileage, weeks>>
                ELSE \E weekly_mileage \in
                         CalculateWeeklyMileage(week_num, current_mileage,
                                                profile, phase) :
                       /\ weeks' = Append(weeks,
                              GenerateWeeklyPlan(week_num, phase,
                                                 weekly_mileage, profile))
                       /\ current_mileage' = weekly_mileage
                       /\ week_num' = week_num + 1
                       /\ UNCHANGED <<pc, result>>
       ELSE /\ IF weeks = <<>>
               THEN /\ pc' = "raised"      \* max() of an empty sequence
                    /\ result' = [kind |-> "ValueError"]
               ELSE /\ pc' = "returned"
                    /\ result' = TrainingPlan(profile, weeks, total_weeks,
                                              PeakOf(weeks))
            /\ UNCHANGED <<week_num, current_mileage, weeks>>
    /\ UNCHANGED <<profile, total_weeks, phase_breakdown, call>>
    /\ UNCHANGED uiVars

Next == CreateProfile \/ GeneratePlanBegin \/ GeneratePlanLoop

Spec == Init /\ [][Next]_vars

(* ------------------------- the helpers, directly ---------------------- *)

\* the member whose name is the key of the breakdown item that covers the
\* week (TAPER past the last item)
PhaseOfBreakdown(week, breakdown) ==
    LET at == DeterminePhaseExit(week, breakdown, 1, 0)
    IN  IF at = 0 THEN PhaseMember("TAPER") ELSE PhaseMember(breakdown[at][1])

\* the place of a member in the order the breakdown lists the phases
PhaseOrder(phase) ==
    CASE phase.name = "BASE" -> 1
      [] phase.name = "BUILD" -> 2
      [] phase.name = "PEAK" -> 3
      [] phase.name = "TAPER" -> 4

\* The body of generate_plan's loop with the phase passed in: a direct call
\* of _calculate_weekly_mileage and of _generate_weekly_plan for the next
\* week, appending the week and carrying current_mileage from week to week
\* as generate_plan does.  The phases passed in over the weeks are either
\* the members the breakdown names, week by week, or one member for every
\* week.
\* by_breakdown records that every call so far was given the member named
\* by the breakdown's key for its week, no_tie that no value so far sat on
\* a rounding tie, where the model allows both neighbours.
CallHelpers ==
    /\ pc = "loop"
    /\ week_num <= LastWeek(total_weeks)
    /\ \E phase \in TrainingPhase :
         /\ call # NoValue =>
                \/ /\ call.by_breakdown
                   /\ phase = PhaseOfBreakdown(week_num, phase_breakdown)
                \/ /\ phase = call.phase
                   /\ call.by_breakdown =>
                          PhaseOfBreakdown(1, phase_breakdown) = call.phase
         /\ \E weekly_mileage \in
                CalculateWeeklyMileage(week_num, current_mileage, profile, phase) :
              /\ call' = [ week_num |-> week_num,
                           phase |-> phase,
                           current_mileage |-> current_mileage,
                           weekly_mileage |-> weekly_mileage,
                           week |-> GenerateWeeklyPlan(week_num, phase,
                                                       weekly_mileage, profile),
                           by_breakdown |->
                               /\ call # NoValue => call.by_breakdown
                               /\ phase = PhaseOfBreakdown(week_num, phase_breakdown),
                           no_tie |->
                               /\ call # NoValue => call.no_tie
                               /\ Cardinality(CalculateWeeklyMileage(
                                      week_num, current_mileage, profile,
                                      phase)) = 1 ]
              /\ weeks' = Append(weeks, call'.week)
              /\ current_mileage' = weekly_mileage
    /\ week_num' = week_num + 1
    /\ UNCHANGED <<pc, profile, total_weeks, phase_breakdown, result>>
    /\ UNCHANGED uiVars

HelperNext == CreateProfile \/ GeneratePlanBegin \/ CallHelpers

HelperSpec == Init /\ [][HelperNext]_vars

(* --------------------- the multi-timer application: steps ------------- *)

\* the "+" button, or any other call of MultiTimerApp.add_timer
AddTimer ==
    /\ Len(timers) >= max_timers \/ created < MaxCreated
    /\ LET app == add_timer(AppState(timers, add_button, created))
       IN  /\ timers' = app.timers
           /\ add_button' = app.add_button
           /\ created' = app.created
           /\ observed' = IF Len(app.timers) > Len(timers)
                          THEN Append(observed, Unstarted)
                          ELSE observed
    /\ UNCHANGED <<now, planVars, recorderVars>>

\* the remove button of the timer at position i: Timer.remove_timer, which
\* stops the timer if it runs and calls MultiTimerApp.remove_timer
RemoveTimer(i) ==
    /\ i \in 1..Len(timers)
    /\ \E clock \in now..MaxClock, split_clock \in now..MaxClock :
         /\ IF timers[i].is_running
            THEN /\ clock <= split_clock
                 /\ timers[i].is_split_running \/ split_clock = clock
            ELSE clock = now /\ split_clock = now
         /\ LET stopped == IF timers[i].is_running
                           THEN [timers EXCEPT ![i] =
                                    stop_timer(timers[i], clock, split_clock)]
                           ELSE timers
                app == remove_timer(AppState(stopped, add_button, created), i)
                seen == Ran(Ran(observed, timers, clock - now),
                            stopped, split_clock - clock)
            IN  /\ timers' = app.timers
                /\ add_button' = app.add_button
                /\ created' = app.created
                /\ observed' = RemoveAt(seen, i)
         /\ now' = split_clock
    /\ UNCHANGED <<planVars, recorderVars>>

\* the start/stop button of the timer at position i: Timer.toggle_timer
ToggleTimer(i) ==
    /\ i \in 1..Len(timers)
    /\ \E clock \in now..MaxClock, split_clock \in now..MaxClock :
         /\ clock <= split_clock
         /\ (timers[i].is_running /\ timers[i].is_split_running)
                \/ split_clock = clock
         /\ LET toggled == [timers EXCEPT ![i] =
                               toggle_timer(timers[i], clock, split_clock)]
                seen == Ran(observed, timers, clock - now)
            IN  /\ timers' = toggled
                /\ observed' =
                      IF timers[i].is_running
                      THEN Ran(seen, toggled, split_clock - clock)
                      ELSE [seen EXCEPT ![i].resumed = @ \/ observed[i].ran > 0]
         /\ now' = split_clock
    /\ UNCHANGED <<add_button, created, planVars, recorderVars>>

\* the split button of the timer at position i, which can be pressed only
\* while it is enabled: Timer.toggle_split
ToggleSplit(i) ==
    /\ i \in 1..Len(timers)
    /\ timers[i].split_button = "normal"
    /\ Len(timers[i].splits) + (IF timers[i].is_split_running THEN 1 ELSE 0)
           < MaxSplits
    /\ \E clock \in now..MaxClock, next_clock \in now..MaxClock :
         /\ clock <= next_clock
         /\ timers[i].is_split_running \/ next_clock = clock
         /\ timers' = [timers EXCEPT ![i] =
                          toggle_split(timers[i], clock, next_clock)]
         /\ observed' = Ran(observed, timers, next_clock - now)
         /\ now' = next_clock
    /\ UNCHANGED <<add_button, created, planVars, recorderVars>>

\* the reset button of the timer at position i: Timer.reset_timer
ResetTimer(i) ==
    /\ i \in 1..Len(timers)
    /\ timers' = [timers EXCEPT ![i] = reset_timer(timers[i])]
    /\ observed' = [observed EXCEPT ![i] = Unstarted]
    /\ UNCHANGED <<add_button, created, now, planVars, recorderVars>>

\* the start-all button: MultiTimerApp.start_all_timers
StartAllTimers ==
    /\ \E out \in start_all_timers(timers, observed, 1, now, MaxClock) :
         /\ timers' = out.timers
         /\ observed' = out.observed
         /\ now' = out.now
    /\ UNCHANGED <<add_button, created, planVars, recorderVars>>

\* the "r" key: MultiTimerApp.reset_all_timers
ResetAllTimers ==
    /\ timers' = [i \in 1..Len(timers) |-> reset_timer(timers[i])]
    /\ observed' = [i \in 1..Len(timers) |-> Unstarted]
    /\ UNCHANGED <<add_button, created, now, planVars, recorderVars>>

\* the clock advances by one tick; the stopwatches of the running timers
\* advance with it
Tick ==
    /\ now < MaxClock
    /\ now' = now + 1
    /\ observed' = [i \in 1..Len(timers) |->
                       IF timers[i].is_running
                       THEN [observed[i] EXCEPT !.ran = @ + 1]
                       ELSE observed[i]]
    /\ UNCHANGED <<timers, add_button, created, planVars, recorderVars>>

\* add_timer and remove_timer in any order
AppNext == AddTimer \/ \E i \in 1..max_timers : RemoveTimer(i)

AppSpec == Init /\ [][AppNext]_vars

\* the buttons of the timers the application starts with, and the clock
TimerNext ==
    \/ \E i \in 1..max_timers :
         ToggleTimer(i) \/ ToggleSplit(i) \/ ResetTimer(i) \/ RemoveTimer(i)
    \/ StartAllTimers
    \/ ResetAllTimers
    \/ Tick

TimerSpec == Init /\ [][TimerNext]_vars

(* ------------------------ the video recorder: steps -------------------- *)
(* The UI thread runs one handler at a time, line by line, the recording   *)
(* threads running in between; ui.at is the line the UI thread is about to *)
(* run.                                                                    *)

\* MultiTimerApp.toggle_recording: the test of line 332 that enters
\* start_recording or stop_recording, and the button change once the call
\* has returned (334 after a start, 338 after a stop)
ToggleRecording ==
    /\ root = "alive"
    /\ \/ /\ ui = UiIdle
          /\ IF ~video_recorder.is_recording
             THEN /\ Len(captures) < MaxRecordings
                  /\ ui' = [handler |-> "toggle_recording", at |-> "610"]
             ELSE ui' = [handler |-> "toggle_recording", at |-> "649"]
          /\ UNCHANGED record_button
       \/ /\ ui.handler = "toggle_recording"
          /\ ui.at \in {"334", "338"}
          /\ record_button' = IF ui.at = "334" THEN "stop" ELSE "record"
          /\ ui' = UiIdle
    /\ UNCHANGED <<video_recorder, captures, writers, threads, root,
                   planVars, timerVars>>

\* MultiTimerApp.save_session: it stops a recording that is on (367-368)
\* and shows the record symbol (369) before it writes the session file
SaveSession ==
    /\ root = "alive"
    /\ \/ /\ ui = UiIdle
          /\ video_recorder.is_recording
          /\ ui' = [handler |-> "save_session", at |-> "649"]
          /\ UNCHANGED record_button
       \/ /\ ui.handler = "save_session"
          /\ ui.at = "369"
          /\ record_button' = "record"
          /\ ui' = UiIdle
    /\ UNCHANGED <<video_recorder, captures, writers, threads, root,
                   planVars, timerVars>>

\* MultiTimerApp.on_closing: it stops a recording that is on (578-579) and
\* destroys the window (582), the record button left as it is
OnClosing ==
    /\ root = "alive"
    /\ \/ /\ ui = UiIdle
          /\ IF video_recorder.is_recording
             THEN /\ ui' = [handler |-> "on_closing", at |-> "649"]
                  /\ UNCHANGED root
             ELSE /\ root' = "destroyed"
                  /\ UNCHANGED ui
       \/ /\ ui.handler = "on_closing"
          /\ ui.at = "582"
          /\ root' = "destroyed"
          /\ ui' = UiIdle
    /\ UNCHANGED <<video_recorder, captures, writers, threads, record_button,
                   planVars, timerVars>>

\* one step of start_recording on the UI thread, by the line it is at; the
\* webcam opens or not when the capture is made
StartRecordingStep ==
    /\ ui.handler = "toggle_recording"
    /\ CASE ui.at = "610" ->
              \E opened \in BOOLEAN :
                /\ captures' = Append(captures,
                                      IF opened THEN "opened" ELSE "unopened")
                /\ video_recorder' = [video_recorder EXCEPT
                                         !.cap = Len(captures) + 1]
                /\ ui' = [ui EXCEPT !.at = "611"]
                /\ UNCHANGED <<writers, threads>>
         [] ui.at = "611" ->
              /\ ui' = [ui EXCEPT !.at =
                          IF captures[video_recorder.cap] = "opened"
                          THEN "627" ELSE "334"]
              /\ UNCHANGED <<video_recorder, captures, writers, threads>>
         [] ui.at = "627" ->
              /\ writers' = Append(writers, "open")
              /\ video_recorder' = [video_recorder EXCEPT
                                       !.video_writer = Len(writers) + 1]
              /\ ui' = [ui EXCEPT !.at = "629"]
              /\ UNCHANGED <<captures, threads>>
         [] ui.at = "629" ->
              /\ video_recorder' = [video_recorder EXCEPT
                                       !.is_recording = TRUE]
              /\ ui' = [ui EXCEPT !.at = "634"]
              /\ UNCHANGED <<captures, writers, threads>>
         [] ui.at = "634" ->
              /\ threads' = Append(threads, RecordingThread)
              /\ ui' = [ui EXCEPT !.at = "637"]
              /\ UNCHANGED <<video_recorder, captures, writers>>
         [] ui.at = "637" ->
              /\ video_recorder' = [video_recorder EXCEPT
                                       !.stop_preview = FALSE]
              /\ ui' = [ui EXCEPT !.at = "334"]
              /\ UNCHANGED <<captures, writers, threads>>
         [] OTHER -> FALSE
    /\ UNCHANGED <<record_button, root, planVars, timerVars>>

\* one step of stop_recording on the UI thread, by the line it is at
StopRecordingStep ==
    /\ ui # UiIdle
    /\ CASE ui.at = "649" ->
              /\ video_recorder' = [video_recorder EXCEPT
                                       !.is_recording = FALSE]
              /\ ui' = [ui EXCEPT !.at = "650"]
              /\ UNCHANGED <<captures, writers>>
         [] ui.at = "650" ->
              /\ video_recorder' = [video_recorder EXCEPT
                                       !.stop_preview = TRUE]
              /\ ui' = [ui EXCEPT !.at = "653"]
              /\ UNCHANGED <<captures, writers>>
         [] ui.at = "653" ->
              IF video_recorder.video_writer # 0
              THEN /\ writers' = [writers EXCEPT
                                     ![video_recorder.video_writer] = "released"]
                   /\ ui' = [ui EXCEPT !.at = "655"]
                   /\ UNCHANGED <<video_recorder, captures>>
              ELSE /\ ui' = [ui EXCEPT !.at = "658"]
                   /\ UNCHANGED <<video_recorder, captures, writers>>
         [] ui.at = "655" ->
              /\ video_recorder' = [video_recorder EXCEPT !.video_writer = 0]
              /\ ui' = [ui EXCEPT !.at = "658"]
              /\ UNCHANGED <<captures, writers>>
         [] ui.at = "658" ->       \* join(timeout=1): the threads have
              /\ ui' = [ui EXCEPT !.at = "664"]     \* ended, or a second passed
              /\ UNCHANGED <<video_recorder, captures, writers>>
         [] ui.at = "664" ->
              IF video_recorder.cap # 0
              THEN /\ captures' = [captures EXCEPT
                                      ![video_recorder.cap] = "released"]
                   /\ ui' = [ui EXCEPT !.at = "666"]
                   /\ UNCHANGED <<video_recorder, writers>>
              ELSE /\ ui' = [ui EXCEPT !.at = AfterStopRecording(ui.handler)]
                   /\ UNCHANGED <<video_recorder, captures, writers>>
         [] ui.at = "666" ->
              /\ video_recorder' = [video_recorder EXCEPT !.cap = 0]
              /\ ui' = [ui EXCEPT !.at = AfterStopRecording(ui.handler)]
              /\ UNCHANGED <<captures, writers>>
         [] OTHER -> FALSE
    /\ UNCHANGED <<threads, record_button, root, planVars, timerVars>>

\* one step of _record_video on recording thread k, by the line it is at
RecordVideo(k) ==
    /\ k \in 1..Len(threads)
    /\ LET th == threads[k]
           rec == video_recorder
       IN  CASE th.at = "672" ->
                  threads' = [threads EXCEPT ![k].at =
                      IF rec.is_recording /\ rec.cap # 0 /\ rec.video_writer # 0
                      THEN "673" ELSE "done"]
             [] th.at = "673" ->
                  IF rec.cap = 0
                  THEN threads' = [threads EXCEPT ![k].at = "died"]
                  ELSE \E ret \in IF captures[rec.cap] = "opened"
                                  THEN BOOLEAN ELSE {FALSE} :
                         threads' = [threads EXCEPT ![k].at = "674",
                                                    ![k].ret = ret]
             [] th.at = "674" ->
                  threads' = [threads EXCEPT ![k].at =
                      IF th.ret /\ rec.video_writer # 0 THEN "678" ELSE "done"]
             [] th.at = "678" ->
                  IF rec.video_writer = 0
                  THEN threads' = [threads EXCEPT ![k].at = "done"]
                  ELSE IF writers[rec.video_writer] = "released"
                  THEN \E next \in {"672", "done"} :
                         threads' = [threads EXCEPT ![k].at = next,
                                                    ![k].last_write = "released"]
                  ELSE threads' = [threads EXCEPT ![k].at = "672",
                                                  ![k].last_write = "open"]
             [] th.at \in {"done", "died"} -> FALSE
    /\ UNCHANGED <<video_recorder, captures, writers, ui, record_button, root,
                   planVars, timerVars>>

RecorderNext ==
    \/ ToggleRecording
    \/ SaveSession
    \/ OnClosing
    \/ StartRecordingStep
    \/ StopRecordingStep
    \/ \E k \in 1..MaxRecordings : RecordVideo(k)

RecorderSpec == Init /\ [][RecorderNext]_vars

(* ------------------------------- claims ------------------------------- *)

\* generate_plan has ended, by a return or by an exception
Ended == pc \in {"returned", "raised"}

\* generate_plan has ended by returning a TrainingPlan
Returned == pc = "returned"

\* week n is a recovery week of the profile's experience level
IsRecoveryWeek(n, prof) ==
    n % EXPERIENCE_ADJUSTMENTS(prof.experience_level).recovery_weeks_frequency = 0

\* C1: in every week produced for a valid profile the distances of the
\* week's workouts add up to the week's total_mileage, to within 0.1 mile.
\* Stated of the week _generate_weekly_plan returns.
C1_WorkoutsSumToTotal ==
    call # NoValue =>
        LET sum == SumDistance(call.week.workouts)
            total == call.week.total_mileage * DistPerTick
            tolerance == (TicksPerMile * DistPerTick) \div 10
        IN  sum - total <= tolerance /\ total - sum <= tolerance

\* C2: in a week that is not a recovery week the mileage exceeds the
\* preceding mileage (for week 1 the profile's current weekly mileage) by at
\* most 10% of that preceding mileage.  Stated of the value
\* _calculate_weekly_mileage returns for the mileage it was given.
C2_IncreaseAtMostTenPercent ==
    (call # NoValue /\ ~IsRecoveryWeek(call.week_num, profile)) =>
        (call.weekly_mileage - call.current_mileage) * 10 <= call.current_mileage

\* C3: generate_plan returns a plan in which every recovery week's mileage
\* is strictly less than the mileage of the week before it.
C3_RecoveryWeekLower ==
    Ended =>
        /\ Returned
        /\ \A n \in 2..Len(result.weeks) :
               IsRecoveryWeek(n, profile) =>
                   result.weeks[n].total_mileage < result.weeks[n - 1].total_mileage

\* C4: generate_plan returns a plan in which every week has exactly
\* days_per_week workouts, the i-th with day number i.
C4_DaysOneToDaysPerWeek ==
    Ended =>
        /\ Returned
        /\ \A n \in 1..Len(result.weeks) :
               LET ws == result.weeks[n].workouts
               IN  /\ Len(ws) = profile.days_per_week
                   /\ \A i \in 1..Len(ws) : ws[i].day = i

\* the number of Long Run workouts in a list of workouts
LongRuns(ws) == Cardinality({i \in 1..Len(ws) : ws[i].workout_type = "LONG_RUN"})

\* C5: generate_plan returns a plan in which every week contains exactly one
\* Long Run workout.
C5_OneLongRunPerWeek ==
    Ended =>
        /\ Returned
        /\ \A n \in 1..Len(result.weeks) : LongRuns(result.weeks[n].workouts) = 1

\* generate_plan has computed total_weeks and the phase breakdown
TimelineComputed == pc \in {"loop", "returned", "raised"}

\* C6: the total_weeks generate_plan computes lies within
\* [min_training_weeks, max_training_weeks] of the target distance.
C6_TotalWeeksWithinConfig ==
    TimelineComputed =>
        LET distance_config == DISTANCE_CONFIGS(profile.target_distance)
        IN  /\ distance_config.min_training_weeks <= total_weeks
            /\ total_weeks <= distance_config.max_training_weeks

\* a state in which total_weeks has been computed and the experience
\* extension has moved it off the distance's minimum
C6_Witness ==
    /\ TimelineComputed
    /\ total_weeks > DISTANCE_CONFIGS(profile.target_distance).min_training_weeks

\* C7: the phase breakdown is four non-negative week counts, for Base,
\* Build, Peak and Taper, whose sum is total_weeks.
C7_PhaseCountsSumToTotal ==
    TimelineComputed =>
        /\ Len(phase_breakdown) = 4
        /\ <<phase_breakdown[1][1], phase_breakdown[2][1],
             phase_breakdown[3][1], phase_breakdown[4][1]>>
               = <<"BASE", "BUILD", "PEAK", "TAPER">>
        /\ \A i \in 1..4 : phase_breakdown[i][2] >= 0
        /\ phase_breakdown[1][2] + phase_breakdown[2][2]
               + phase_breakdown[3][2] + phase_breakdown[4][2] = total_weeks

\* a state in which the breakdown has been computed and the reconciliation
\* has changed both the build and the base count of the distance's config
C7_Witness ==
    /\ TimelineComputed
    /\ phase_breakdown[2][2]
           # DISTANCE_CONFIGS(profile.target_distance).build_phase_weeks
    /\ phase_breakdown[1][2]
           # DISTANCE_CONFIGS(profile.target_distance).base_phase_weeks
               + EXPERIENCE_ADJUSTMENTS(profile.experience_level).base_phase_extension

\* the number of weeks 1..total that _determine_phase assigns to phase
WeeksIn(phase, total, breakdown) ==
    Cardinality({n \in 1..total : DeterminePhase(n, breakdown) = phase})

\* C8: every week 1..total_weeks is assigned a phase, the phase of week n+1
\* is never earlier than the phase of week n, and each phase is assigned as
\* many weeks as the breakdown counts for it.
C8_PhasesInOrder ==
    TimelineComputed =>
        /\ \A n \in 1..total_weeks :
               DeterminePhase(n, phase_breakdown) \in TrainingPhase
        /\ \A n \in 1..(total_weeks - 1) :
               PhaseOrder(DeterminePhase(n, phase_breakdown))
                   <= PhaseOrder(DeterminePhase(n + 1, phase_breakdown))
        /\ \A i \in 1..Len(phase_breakdown) :
               WeeksIn(PhaseMember(phase_breakdown[i][1]), total_weeks,
                       phase_breakdown) = phase_breakdown[i][2]

\* C9: generate_plan returns a plan whose peak_mileage is the largest
\* total_mileage of its weeks.
C9_PeakIsMaxOfWeeks ==
    Ended =>
        /\ Returned
        /\ \A n \in 1..Len(result.weeks) :
               result.weeks[n].total_mileage <= result.peak_mileage
        /\ \E n \in 1..Len(result.weeks) :
               result.weeks[n].total_mileage = result.peak_mileage

\* C10: generate_plan returns a plan with exactly total_weeks weeks, the
\* k-th of which has week_number k.
C10_WeeksNumberedContiguously ==
    Ended =>
        /\ Returned
        /\ Len(result.weeks) = result.total_weeks
        /\ \A k \in 1..Len(result.weeks) : result.weeks[k].week_number = k

\* C11: in every week the Long Run is strictly longer than every other
\* workout of the week.  Stated of the week _generate_weekly_plan returns.
C11_LongRunStrictlyLongest ==
    call # NoValue =>
        LET ws == call.week.workouts
        IN  \A i, j \in 1..Len(ws) :
                (ws[i].workout_type = "LONG_RUN" /\ ws[j].workout_type # "LONG_RUN")
                    => ws[i].distance_miles > ws[j].distance_miles

\* target_mileage of _calculate_weekly_mileage for week n in the given
\* phase, as the float the code computes:
\* weekly_mileage_target * max_weekly_mileage_multiplier, and in the Taper
\* phase target_mileage *= (1 - 0.1 * (n % 4))
TargetMileage(n, phase, prof) ==
    LET multiplier == EXPERIENCE_ADJUSTMENTS(prof.experience_level)
                          .max_weekly_mileage_multiplier
        target_mileage == DoubleMul(DoubleOfInt(prof.weekly_mileage_target),
                                    DoubleOfRatio(multiplier, 10))
        taper_reduction == DoubleMul(DoubleOfRatio(1, 10), DoubleOfInt(n % 4))
    IN  IF phase.name = "TAPER"
        THEN DoubleMul(target_mileage, DoubleSub(DoubleOfInt(1), taper_reduction))
        ELSE target_mileage

\* mileage <= target_mileage for a mileage (in ticks) of week n in the given
\* phase.  The floats are within one part in 2^50 of the exact values and a
\* tick is 1/40 mile, so the exact values decide unless they are equal; when
\* they are, the floats are compared: the mileage as the double nearest to
\* it, which is what round(new_mileage, 1) returns
WithinTargetMileage(n, phase, mileage, prof) ==
    LET multiplier == EXPERIENCE_ADJUSTMENTS(prof.experience_level)
                          .max_weekly_mileage_multiplier
        scale == IF phase.name = "TAPER" THEN 10 - (n % 4) ELSE 10
        exact_mileage == mileage * 100
        exact_target == prof.weekly_mileage_target * multiplier * scale
                            * TicksPerMile
    IN  IF exact_mileage # exact_target
        THEN exact_mileage < exact_target
        ELSE DoubleLeq(DoubleOfRatio(mileage, TicksPerMile),
                       TargetMileage(n, phase, prof))

\* C12: generate_plan returns a plan in which the mileage of every
\* non-recovery week is at most that week's target_mileage.
C12_NonRecoveryWithinTarget ==
    Ended =>
        /\ Returned
        /\ \A n \in 1..Len(result.weeks) :
               ~IsRecoveryWeek(n, profile) =>
                   WithinTargetMileage(n, result.weeks[n].phase,
                                       result.weeks[n].total_mileage, profile)

\* C13: the mileage of every week is a whole number of tenths of a mile
\* and is the current_mileage the next week is computed from.  Stated of
\* the value _calculate_weekly_mileage returns and the loop carries on.
C13_MileageRoundedAndCarried ==
    call # NoValue =>
        /\ call.weekly_mileage % (TicksPerMile \div 10) = 0
        /\ current_mileage = call.weekly_mileage

\* C14: for the profile Beginner, 5K, target 20, 4 days, current mileage
\* unset, generate_plan starts from 14.0 miles and returns a plan with
\* total_weeks 12 whose week 1 is in Base with a mileage of 14.1.
C14_ScenarioFirstWeek ==
    (profile = ScenarioProfile /\ Ended) =>
        /\ Returned
        /\ profile.current_weekly_mileage = 14 * TicksPerMile
        /\ result.total_weeks = 12
        /\ result.weeks[1].phase = PhaseMember("BASE")
        /\ result.weeks[1].total_mileage * 10 = 141 * TicksPerMile

\* C16: generate_plan ends by returning a TrainingPlan, never by raising.
C16_ReturnsWithoutRaising ==
    /\ pc # "raised"
    /\ Ended => result.kind = "TrainingPlan"

\* C17: generate_plan returns a plan in which every Rest workout has
\* distance 0, Zone 1 and duration 0, and no workout a negative distance.
C17_RestWorkoutsEmpty ==
    Ended =>
        /\ Returned
        /\ \A n \in 1..Len(result.weeks) :
             \A i \in 1..Len(result.weeks[n].workouts) :
               LET w == result.weeks[n].workouts[i]
               IN  /\ w.distance_miles >= 0
                   /\ w.workout_type = "REST" =>
                          /\ w.distance_miles = 0
                          /\ w.intensity_zone = "ZONE_1"
                          /\ w.duration_minutes = 0

\* C18: for every week 1..total_weeks of the timeline generate_plan
\* computed, _determine_phase returns from inside its loop: control leaves
\* at an item of the breakdown, not at the trailing fallback, and what
\* leaves is a TrainingPhase member, not an exception.
C18_ReturnsFromInsideLoop ==
    TimelineComputed =>
        \A n \in 1..total_weeks :
            /\ DeterminePhaseExit(n, phase_breakdown, 1, 0)
                   \in 1..Len(phase_breakdown)
            /\ ~IsRaised(DeterminePhase(n, phase_breakdown))

\* C19: for a recovery week _calculate_weekly_mileage returns exactly 0.75
\* times the mileage it was given, in every phase: no step toward the
\* target, no cap, no clamp, no taper scaling, no rounding.
C19_RecoveryIsThreeQuarters ==
    (call # NoValue /\ IsRecoveryWeek(call.week_num, profile)) =>
        4 * call.weekly_mileage = 3 * call.current_mileage

\* a recovery week computed in Taper, in a week whose taper scaling is not
\* 1, giving a value that is not a whole number of tenths
C19_Witness ==
    /\ call # NoValue
    /\ IsRecoveryWeek(call.week_num, profile)
    /\ call.phase = PhaseMember("TAPER")
    /\ call.week_num % 4 # 0
    /\ call.current_mileage > 0
    /\ 4 * call.weekly_mileage = 3 * call.current_mileage
    /\ call.weekly_mileage % (TicksPerMile \div 10) # 0

\* C20: the phase breakdown gives Build exactly 2 weeks, which is never the
\* config's build_phase_weeks, and Base, Peak and Taper at least 1 week.
C20_BuildIsTwoWeeks ==
    TimelineComputed =>
        /\ phase_breakdown[2] = <<"BUILD", 2>>
        /\ DISTANCE_CONFIGS(profile.target_distance).build_phase_weeks # 2
        /\ phase_breakdown[1][1] = "BASE" /\ phase_breakdown[1][2] >= 1
        /\ phase_breakdown[3][1] = "PEAK" /\ phase_breakdown[3][2] >= 1
        /\ phase_breakdown[4][1] = "TAPER" /\ phase_breakdown[4][2] >= 1

\* a Marathon timeline: the config asks for 10 Build weeks, 2 are given
C20_Witness ==
    /\ TimelineComputed
    /\ profile.target_distance.name = "MARATHON"
    /\ DISTANCE_CONFIGS(profile.target_distance).build_phase_weeks = 10
    /\ phase_breakdown[2][2] = 2

\* the profile's current mileage is the default of an unset value,
\* weekly_mileage_target * 0.7
CurrentMileageUnset(prof) ==
    prof.current_weekly_mileage * 10 = prof.weekly_mileage_target * 7 * TicksPerMile

\* C21: for a profile with current mileage unset, the mileage of a week of
\* the Taper phase is not higher than the mileage of the week before it.
\* Stated of the value _calculate_weekly_mileage returns for a Taper week
\* when every week so far was given the phase the breakdown names for it
\* and no week's value sat on a rounding tie.
C21_TaperNeverIncreases ==
    ( /\ call # NoValue
      /\ CurrentMileageUnset(profile)
      /\ call.week_num > 1
      /\ call.phase = PhaseMember("TAPER")
      /\ call.by_breakdown
      /\ call.no_tie )
        => call.weekly_mileage <= call.current_mileage

\* C22: whatever the profile's current mileage, no week's mileage exceeds
\* weekly_mileage_target * max_weekly_mileage_multiplier.  Stated of the
\* weeks the helpers produce when called week after week as generate_plan
\* calls them.
C22_NeverAboveCap ==
    call # NoValue =>
        /\ WithinTargetMileage(call.week_num, PhaseMember("BASE"),
                               call.weekly_mileage, profile)
        /\ WithinTargetMileage(call.week_num, PhaseMember("BASE"),
                               call.week.total_mileage, profile)

\* week 1 computed from a current mileage above the cap: the week's
\* mileage is the cap itself
C22_Witness ==
    /\ call # NoValue
    /\ call.week_num = 1
    /\ ~WithinTargetMileage(1, PhaseMember("BASE"), call.current_mileage, profile)
    /\ WithinTargetMileage(1, PhaseMember("BASE"), call.weekly_mileage, profile)
    /\ ~WithinTargetMileage(1, PhaseMember("BASE"), call.weekly_mileage + 1, profile)

\* a workout in one of the hard zones of ZONE_DISTRIBUTION
IsHardWorkout(w) == w.intensity_zone \in {"ZONE_4", "ZONE_5"}

\* C23: no week schedules hard workouts (Zone 4 or Zone 5) on two
\* consecutive day numbers.  Stated of the week _generate_weekly_plan
\* returns.
C23_NoConsecutiveHardDays ==
    call # NoValue =>
        LET ws == call.week.workouts
        IN  \A i, j \in 1..Len(ws) :
                (IsHardWorkout(ws[i]) /\ IsHardWorkout(ws[j]))
                    => ws[j].day # ws[i].day + 1

\* C24: after any sequence of add_timer and remove_timer calls there are at
\* most 10 timers, and add_timer called with 10 timers present leaves the
\* timer list as it is.
C24_AtMostTenTimers ==
    /\ Len(timers) <= 10
    /\ Len(timers) = 10 =>
           add_timer(AppState(timers, add_button, created)).timers = timers

\* the list is full again after timers were removed and others added
C24_Witness ==
    /\ Len(timers) = 10
    /\ created > 10
    /\ add_button = "disabled"

\* C25: after any sequence of add_timer and remove_timer calls the timer at
\* position i has timer_id i.
C25_IdsFollowPositions ==
    \A i \in 1..Len(timers) : timers[i].timer_id = i

\* the second and the fourth Timer constructed are now first and second,
\* the first and the third having been removed
C25_Witness ==
    /\ Len(timers) >= 2
    /\ timers[1].obj = 2 /\ timers[1].timer_id = 1
    /\ timers[2].obj = 4 /\ timers[2].timer_id = 2

\* C26: in every state a Timer reaches through its buttons, a running split
\* implies a running timer.
C26_SplitOnlyWhileRunning ==
    \A i \in 1..Len(timers) :
        timers[i].is_split_running => timers[i].is_running

\* a timer stopped while its split was running: the split was recorded and
\* stopped with it
C26_Witness ==
    \E i \in 1..Len(timers) :
        /\ ~timers[i].is_running
        /\ ~timers[i].is_split_running
        /\ timers[i].splits # <<>>
        /\ timers[i].split_button = "disabled"

\* C27: a stopped Timer's elapsed_time is the clock time it has been running
\* since its last reset.
C27_ElapsedIsRunningTime ==
    \A i \in 1..Len(timers) :
        ~timers[i].is_running => timers[i].elapsed_time = observed[i].ran

\* a timer stopped after it was paused and started again, with time spent
\* stopped in between
C27_Witness ==
    \E i \in 1..Len(timers) :
        /\ ~timers[i].is_running
        /\ observed[i].resumed
        /\ observed[i].ran >= 2
        /\ observed[i].ran < now
        /\ timers[i].start_time > 0
        /\ timers[i].elapsed_time = observed[i].ran

\* C28: after each call of toggle_recording the record button shows the
\* stop symbol exactly when video_recorder.is_recording is true, also when
\* the webcam cannot be opened.
C28_ButtonShowsRecording ==
    [][ ui.handler = "toggle_recording" /\ ui' = UiIdle =>
          (record_button' = "stop" <=> video_recorder'.is_recording) ]_vars

\* C29: under every interleaving of stop_recording with the recording
\* thread's loop, the thread never calls write on a video writer that
\* stop_recording has released.
C29_NoWriteAfterRelease ==
    \A k \in 1..Len(threads) : threads[k].last_write # "released"

(* ------------------ the helpers on their own: lemmas ------------------ *)

\* for every week 1..total_weeks, control leaves _determine_phase at an item
\* of the breakdown: the trailing fallback (line 115) is not reached
FallbackNotReached ==
    TimelineComputed =>
        \A n \in 1..total_weeks :
            DeterminePhaseExit(n, phase_breakdown, 1, 0)
                \in 1..Len(phase_breakdown)

\* _generate_weekly_plan called directly returns days_per_week workouts,
\* the i-th with day number i
HelperWeekHasDaysInOrder ==
    call # NoValue =>
        /\ Len(call.week.workouts) = profile.days_per_week
        /\ \A i \in 1..Len(call.week.workouts) : call.week.workouts[i].day = i

\* _generate_weekly_plan called directly returns exactly one Long Run
HelperWeekHasOneLongRun ==
    call # NoValue => LongRuns(call.week.workouts) = 1

\* _calculate_weekly_mileage called directly for a recovery week returns
\* less than the mileage it was given, unless that mileage is zero
HelperRecoveryWeekLower ==
    (call # NoValue /\ IsRecoveryWeek(call.week_num, profile)) =>
        \/ call.weekly_mileage < call.current_mileage
        \/ call.current_mileage = 0

\* the fixed-point arithmetic is exact: a recovery week is computed from a
\* mileage that is a whole number of tenths of a mile
HelperRecoveryFromTenths ==
    (pc = "loop" /\ IsRecoveryWeek(week_num, profile)) =>
        current_mileage % (TicksPerMile \div 10) = 0

\* _generate_weekly_plan called directly returns Rest workouts of distance
\* 0, Zone 1 and duration 0, and no workout of negative distance
HelperRestWorkoutsEmpty ==
    call # NoValue =>
        \A i \in 1..Len(call.week.workouts) :
            LET w == call.week.workouts[i]
            IN  /\ w.distance_miles >= 0
                /\ w.workout_type = "REST" =>
                       /\ w.distance_miles = 0
                       /\ w.intensity_zone = "ZONE_1"
                       /\ w.duration_minutes = 0

\* _calculate_weekly_mileage called directly for a non-recovery week
\* returns a whole number of tenths of a mile
HelperNonRecoveryRounded ==
    (call # NoValue /\ ~IsRecoveryWeek(call.week_num, profile)) =>
        call.weekly_mileage % (TicksPerMile \div 10) = 0

\* for the scenario profile generate_plan computes total_weeks 12 and
\* starts the recurrence at 14.0 miles
ScenarioTimeline ==
    (profile = ScenarioProfile /\ TimelineComputed) =>
        /\ total_weeks = 12
        /\ profile.current_weekly_mileage = 14 * TicksPerMile
        /\ (pc = "loop" /\ week_num = 1) =>
               current_mileage = 14 * TicksPerMile

\* for the scenario profile _calculate_weekly_mileage called directly for
\* week 1 in Base returns 14.1 miles
HelperScenarioWeekOne ==
    (profile = ScenarioProfile /\ call # NoValue /\ call.week_num = 1
        /\ call.phase = PhaseMember("BASE")) =>
        call.weekly_mileage * 10 = 141 * TicksPerMile

====
